---- MODULE Spec2Model ----
(***************************************************************************)
(* A model of currency_aggregator.py: the driver (__main__, read_lines),   *)
(* the line parser (parse_line), the accumulation into totals and the      *)
(* reporter (aggregate_totals), together with the part of Python's         *)
(* decimal.Decimal the program relies on: construction from a string,      *)
(* addition in the default context (28 significant digits, ROUND_HALF_EVEN,*)
(* InvalidOperation trapped) and formatting with ".2f".                    *)
(*                                                                         *)
(* A string is a sequence of one-character strings.  A Decimal is a record *)
(* [kind, sign, digits, exp]: kind "F" is the finite number                *)
(* (-1)^sign * digits * 10^exp, with digits a sequence of decimal digits   *)
(* (most significant first, no leading zero, <<0>> for zero); the kinds    *)
(* "Inf", "NaN" and "sNaN" are the special values.                         *)
(*                                                                         *)
(* The exponents of the amounts in InputLines stay far from the context's  *)
(* Emax, so the Overflow signal of an addition is not modelled.  The       *)
(* except IndexError clause of read_lines is not modelled either: nothing  *)
(* in its try block raises IndexError.                                     *)
(***************************************************************************)
EXTENDS Integers, Sequences, FiniteSets

(***************************************************************************)
(* Bounds of the model.                                                    *)
(***************************************************************************)
MaxLines == 3

(***************************************************************************)
(* decimal.getcontext().prec of the default context the program runs in.   *)
(***************************************************************************)
Prec == 28

---------------------------------------------------------------------------
(* Characters and strings                                                  *)

\* the printable ASCII characters 32..95 and 97..126, in code point order
AsciiLow ==
  <<" ", "!", "\"", "#", "$", "%", "&", "'", "(", ")", "*", "+", ",", "-", ".", "/",
    "0", "1", "2", "3", "4", "5", "6", "7", "8", "9", ":", ";", "<", "=", ">", "?",
    "@", "A", "B", "C", "D", "E", "F", "G", "H", "I", "J", "K", "L", "M", "N", "O",
    "P", "Q", "R", "S", "T", "U", "V", "W", "X", "Y", "Z", "[", "\\", "]", "^", "_">>

AsciiHigh ==
  <<"a", "b", "c", "d", "e", "f", "g", "h", "i", "j", "k", "l", "m", "n", "o",
    "p", "q", "r", "s", "t", "u", "v", "w", "x", "y", "z", "{", "|", "}", "~">>

\* ord(ch)
CodePoint(ch) ==
  IF \E i \in 1..Len(AsciiLow) : AsciiLow[i] = ch
  THEN 31 + (CHOOSE i \in 1..Len(AsciiLow) : AsciiLow[i] = ch)
  ELSE 96 + (CHOOSE i \in 1..Len(AsciiHigh) : AsciiHigh[i] = ch)

\* str.__lt__: comparison by code point, a proper prefix is smaller
StrLess(a, b) ==
  \E i \in 1..Len(b) :
     /\ \A j \in 1..(i - 1) : j <= Len(a) /\ a[j] = b[j]
     /\ \/ i = Len(a) + 1
        \/ i <= Len(a) /\ CodePoint(a[i]) < CodePoint(b[i])

Whitespace == {" ", "\t", "\n", "\r"}

\* str.strip().split(): the maximal runs of non-whitespace characters
Split(s) ==
  LET IsStart(i) == s[i] \notin Whitespace /\ (i = 1 \/ s[i - 1] \in Whitespace)
      starts     == {i \in 1..Len(s) : IsStart(i)}
      Nth(k)     == CHOOSE i \in starts : Cardinality({j \in starts : j < i}) = k - 1
      End(i)     == CHOOSE j \in i..Len(s) :
                      /\ \A m \in i..j : s[m] \notin Whitespace
                      /\ j = Len(s) \/ s[j + 1] \in Whitespace
  IN  [k \in 1..Cardinality(starts) |-> SubSeq(s, Nth(k), End(Nth(k)))]

DigitChars == <<"0", "1", "2", "3", "4", "5", "6", "7", "8", "9">>

IsDigit(ch) == \E i \in 1..10 : DigitChars[i] = ch

DigitVal(ch) == (CHOOSE i \in 1..10 : DigitChars[i] = ch) - 1

AllDigits(s) == \A i \in 1..Len(s) : IsDigit(s[i])

\* str.lower() on the letters the special values are spelt with
Lower(ch) ==
  CASE ch = "I" -> "i" [] ch = "N" -> "n" [] ch = "F" -> "f" [] ch = "T" -> "t"
    [] ch = "Y" -> "y" [] ch = "A" -> "a" [] ch = "S" -> "s" [] ch = "E" -> "e"
    [] OTHER -> ch

LowerStr(s) == [i \in 1..Len(s) |-> Lower(s[i])]

RemoveChar(s, ch) == SelectSeq(s, LAMBDA x : x # ch)

\* the least index of ch in s, 0 when absent
IndexOf(s, ch) ==
  IF \E i \in 1..Len(s) : s[i] = ch
  THEN CHOOSE i \in 1..Len(s) : s[i] = ch /\ \A j \in 1..(i - 1) : s[j] # ch
  ELSE 0

---------------------------------------------------------------------------
(* Coefficients: sequences of digits                                       *)

Zeros(n) == [i \in 1..n |-> 0]

\* the coefficient without its leading zeros (<<0>> for zero)
StripLeading(ds) ==
  IF \A i \in 1..Len(ds) : ds[i] = 0
  THEN IF ds = <<>> THEN <<>> ELSE <<0>>
  ELSE SubSeq(ds, CHOOSE i \in 1..Len(ds) : ds[i] # 0 /\ \A j \in 1..(i - 1) : ds[j] = 0,
              Len(ds))

IsZeroDigits(ds) == \A i \in 1..Len(ds) : ds[i] = 0

PadLeft(ds, n) == IF Len(ds) >= n THEN ds ELSE Zeros(n - Len(ds)) \o ds

\* a < b for coefficients of equal length
DigitsLess(a, b) ==
  \E i \in 1..Len(a) : a[i] < b[i] /\ \A j \in 1..(i - 1) : a[j] = b[j]

\* a + b for coefficients of equal length
AddDigits(a, b) ==
  LET n        == Len(a)
      \* the carry out of position i (position 1 is the most significant)
      Carry(i) == \E j \in i..n : /\ a[j] + b[j] >= 10
                                  /\ \A k \in i..(j - 1) : a[k] + b[k] = 9
      CarryIn(i) == IF i < n /\ Carry(i + 1) THEN 1 ELSE 0
      low      == [i \in 1..n |-> (a[i] + b[i] + CarryIn(i)) % 10]
  IN  StripLeading(IF n > 0 /\ Carry(1) THEN <<1>> \o low ELSE low)

\* a - b for coefficients of equal length with a >= b
SubDigits(a, b) ==
  LET n         == Len(a)
      \* the borrow out of position i
      Borrow(i) == \E j \in i..n : /\ a[j] < b[j]
                                   /\ \A k \in i..(j - 1) : a[k] = b[k]
      BorrowIn(i) == IF i < n /\ Borrow(i + 1) THEN 1 ELSE 0
  IN  StripLeading([i \in 1..n |-> (a[i] - b[i] - BorrowIn(i) + 10) % 10])

\* coefficient + 1
IncDigits(ds) == AddDigits(ds, PadLeft(<<1>>, Len(ds)))

\* int(s) for a string of digits
RECURSIVE StrToNat(_)
StrToNat(s) ==
  IF s = <<>> THEN 0
  ELSE 10 * StrToNat(SubSeq(s, 1, Len(s) - 1)) + DigitVal(s[Len(s)])

\* ROUND_HALF_EVEN: drop the last k digits of ds (k >= 1)
RoundHalfEven(ds, k) ==
  LET p    == PadLeft(ds, k + 1)
      n    == Len(p)
      kept == SubSeq(p, 1, n - k)
      cut  == SubSeq(p, n - k + 1, n)
      rest == SubSeq(cut, 2, k)
      up   == \/ cut[1] > 5
              \/ cut[1] = 5 /\ ~IsZeroDigits(rest)
              \/ cut[1] = 5 /\ IsZeroDigits(rest) /\ kept[Len(kept)] % 2 = 1
  IN  StripLeading(IF up THEN IncDigits(kept) ELSE kept)

---------------------------------------------------------------------------
(* decimal.Decimal                                                         *)

Finite(sign, digits, exp) ==
  [kind |-> "F", sign |-> sign, digits |-> digits, exp |-> exp]

\* a special value; digits is the diagnostic payload of a NaN
Special(kind, sign, payload) ==
  [kind |-> kind, sign |-> sign, digits |-> payload, exp |-> 0]

\* Decimal(): the value a defaultdict(Decimal) gives a missing key
DecZero == Finite(0, <<0>>, 0)

\* the outcome of a failed conversion or of a trapped signal
InvalidOperation == [kind |-> "InvalidOperation", sign |-> 0, digits |-> <<>>, exp |-> 0]

IsFinite(d) == d.kind = "F"

\* [-+]?\d+
IsExponentText(s) ==
  LET body == IF s # <<>> /\ s[1] \in {"+", "-"} THEN Tail(s) ELSE s
  IN  body # <<>> /\ AllDigits(body)

ExponentValue(s) ==
  IF s[1] = "-" THEN 0 - StrToNat(Tail(s))
  ELSE IF s[1] = "+" THEN StrToNat(Tail(s))
  ELSE StrToNat(s)

\* the numeric alternative of the parser: \d* (\. \d*)? (E [-+]?\d+)? with
\* a digit in the integer part or right after the point
ParseNumber(sign, s) ==
  LET low      == LowerStr(s)
      e        == IndexOf(low, "e")
      mant     == IF e = 0 THEN s ELSE SubSeq(s, 1, e - 1)
      expText  == IF e = 0 THEN <<>> ELSE SubSeq(s, e + 1, Len(s))
      dot      == IndexOf(mant, ".")
      intPart  == IF dot = 0 THEN mant ELSE SubSeq(mant, 1, dot - 1)
      fracPart == IF dot = 0 THEN <<>> ELSE SubSeq(mant, dot + 1, Len(mant))
      wellFormed ==
        /\ AllDigits(intPart)
        /\ AllDigits(fracPart)
        /\ intPart # <<>> \/ fracPart # <<>>
        /\ e = 0 \/ IsExponentText(expText)
      coeff    == intPart \o fracPart
      exp      == (IF e = 0 THEN 0 ELSE ExponentValue(expText)) - Len(fracPart)
  IN  IF wellFormed
      THEN Finite(sign, StripLeading([i \in 1..Len(coeff) |-> DigitVal(coeff[i])]), exp)
      ELSE InvalidOperation

\* diag.lstrip('0') as digits
RECURSIVE Payload(_)
Payload(s) ==
  IF s = <<>> THEN <<>>
  ELSE IF s[1] = "0" THEN Payload(Tail(s))
  ELSE [i \in 1..Len(s) |-> DigitVal(s[i])]

\* Decimal(text): the value, or InvalidOperation when text is no numeral
ParseDecimal(text) ==
  LET t    == RemoveChar(text, "_")
      sign == IF t # <<>> /\ t[1] = "-" THEN 1 ELSE 0
      body == IF t # <<>> /\ t[1] \in {"+", "-"} THEN Tail(t) ELSE t
      low  == LowerStr(body)
  IN  IF low = <<"i", "n", "f">> \/ low = <<"i", "n", "f", "i", "n", "i", "t", "y">>
      THEN Special("Inf", sign, <<>>)
      ELSE IF Len(low) >= 3 /\ SubSeq(low, 1, 3) = <<"n", "a", "n">>
                /\ AllDigits(SubSeq(low, 4, Len(low)))
      THEN Special("NaN", sign, Payload(SubSeq(low, 4, Len(low))))
      ELSE IF Len(low) >= 4 /\ SubSeq(low, 1, 4) = <<"s", "n", "a", "n">>
                /\ AllDigits(SubSeq(low, 5, Len(low)))
      THEN Special("sNaN", sign, Payload(SubSeq(low, 5, Len(low))))
      ELSE ParseNumber(sign, body)

\* the exact sum of two finite Decimals: exponent min(a.exp, b.exp)
ExactAdd(a, b) ==
  LET exp == IF a.exp < b.exp THEN a.exp ELSE b.exp
      ca  == a.digits \o Zeros(a.exp - exp)
      cb  == b.digits \o Zeros(b.exp - exp)
      n   == IF Len(ca) > Len(cb) THEN Len(ca) ELSE Len(cb)
      pa  == PadLeft(ca, n)
      pb  == PadLeft(cb, n)
  IN  IF a.sign = b.sign
      THEN Finite(a.sign, AddDigits(pa, pb), exp)
      ELSE IF pa = pb
      THEN Finite(0, <<0>>, exp)
      ELSE IF DigitsLess(pa, pb)
      THEN Finite(b.sign, SubDigits(pb, pa), exp)
      ELSE Finite(a.sign, SubDigits(pa, pb), exp)

\* Decimal._fix: round a finite result to the context's precision
Fix(d) ==
  IF Len(d.digits) <= Prec
  THEN d
  ELSE LET k == Len(d.digits) - Prec
           r == RoundHalfEven(d.digits, k)
       IN  IF Len(r) > Prec
           THEN Finite(d.sign, SubSeq(r, 1, Prec), d.exp + k + 1)
           ELSE Finite(d.sign, r, d.exp + k)

\* Decimal.__add__ in the default context: the sum rounded to Prec digits,
\* or InvalidOperation raised for a signalling NaN and for Infinity - Infinity
DecAdd(a, b) ==
  IF a.kind = "sNaN" \/ b.kind = "sNaN" THEN InvalidOperation
  ELSE IF a.kind = "NaN" THEN a
  ELSE IF b.kind = "NaN" THEN b
  ELSE IF a.kind = "Inf" /\ b.kind = "Inf"
  THEN IF a.sign = b.sign THEN a ELSE InvalidOperation
  ELSE IF a.kind = "Inf" THEN a
  ELSE IF b.kind = "Inf" THEN b
  ELSE Fix(ExactAdd(a, b))

\* Decimal._rescale(-2, ROUND_HALF_EVEN)
Rescale2(d) ==
  IF IsZeroDigits(d.digits) THEN Finite(d.sign, <<0>>, -2)
  ELSE IF d.exp >= -2 THEN Finite(d.sign, d.digits \o Zeros(d.exp + 2), -2)
  ELSE Finite(d.sign, RoundHalfEven(d.digits, -2 - d.exp), -2)

SignText(d) == IF d.sign = 1 THEN <<"-">> ELSE <<>>

DigitsText(ds) == [i \in 1..Len(ds) |-> DigitChars[ds[i] + 1]]

\* format(d, ".2f")
Format2f(d) ==
  IF d.kind = "Inf" THEN SignText(d) \o <<"I", "n", "f", "i", "n", "i", "t", "y">>
  ELSE IF d.kind = "NaN" THEN SignText(d) \o <<"N", "a", "N">> \o DigitsText(d.digits)
  ELSE IF d.kind = "sNaN" THEN SignText(d) \o <<"s", "N", "a", "N">> \o DigitsText(d.digits)
  ELSE LET r == PadLeft(Rescale2(d).digits, 3)
           n == Len(r)
       IN  SignText(d) \o DigitsText(SubSeq(r, 1, n - 2)) \o <<".">>
             \o DigitsText(SubSeq(r, n - 1, n))

---------------------------------------------------------------------------
(* The environment: the command line and the file system                   *)

\* the path given on the command line
Path == <<"i", "n", ".", "t", "x", "t">>

\* sys.argv[1:]
ArgLists == {<<>>, <<Path>>}

\* what open(filepath, "r") meets: a readable file, no such file
\* (FileNotFoundError), no read permission (PermissionError) or a directory
\* (IsADirectoryError)
PathKinds == {"file", "missing", "denied", "directory"}

\* the lines a file is made of
InputLines ==
  {
    \* '100.50 USD\n'
    <<"1", "0", "0", ".", "5", "0", " ", "U", "S", "D", "\n">>,
    \* '10 EUR\n'
    <<"1", "0", " ", "E", "U", "R", "\n">>,
    \* '-10 EUR\n'
    <<"-", "1", "0", " ", "E", "U", "R", "\n">>,
    \* 'abc GBP\n'
    <<"a", "b", "c", " ", "G", "B", "P", "\n">>,
    \* '5 EUR 1\n'
    <<"5", " ", "E", "U", "R", " ", "1", "\n">>,
    \* '\n'
    <<"\n">>,
    \* '1E28 USD\n'
    <<"1", "E", "2", "8", " ", "U", "S", "D", "\n">>,
    \* '-1E28 USD\n'
    <<"-", "1", "E", "2", "8", " ", "U", "S", "D", "\n">>,
    \* '0.4 USD\n'
    <<"0", ".", "4", " ", "U", "S", "D", "\n">>,
    \* 'NaN usd\n'
    <<"N", "a", "N", " ", "u", "s", "d", "\n">>,
    \* 'sNaN USD\n'
    <<"s", "N", "a", "N", " ", "U", "S", "D", "\n">>,
    \* 'Infinity EUR\n'
    <<"I", "n", "f", "i", "n", "i", "t", "y", " ", "E", "U", "R", "\n">>,
    \* '-Infinity EUR\n'
    <<"-", "I", "n", "f", "i", "n", "i", "t", "y", " ", "E", "U", "R", "\n">>,
    \* '  10.005 \t usd  \n'
    <<" ", " ", "1", "0", ".", "0", "0", "5", " ", "\t", " ", "u", "s", "d", " ", " ", "\n">>
  }

---------------------------------------------------------------------------
(* The program                                                             *)

VARIABLES
  pc,        \* the driver's position: ArgCheck, FileOpen, LineLoop, Raised,
             \* Report, Returned, Exit
  argv,      \* sys.argv[1:]
  pathKind,  \* what the path names
  consumed,  \* the lines of the file iterated so far
  totals,    \* the defaultdict: currency -> Decimal
  fileOpen,  \* the file handle f is open
  stdout,    \* lines printed to sys.stdout
  stderr,    \* diagnostics printed to sys.stderr
  reported,  \* aggregate_totals has been called
  exitCode   \* the process's exit status, -1 while running

vars == <<pc, argv, pathKind, consumed, totals, fileOpen, stdout, stderr, reported, exitCode>>

NoExit == -1

\* "Skipping malformed amount: '"
MalformedAmountText ==
  <<"S", "k", "i", "p", "p", "i", "n", "g", " ", "m", "a", "l", "f", "o",
    "r", "m", "e", "d", " ", "a", "m", "o", "u", "n", "t", ":", " ", "'">>

\* "Skipping malformed line length: expected 2 parts, got '"
MalformedLengthText ==
  <<"S", "k", "i", "p", "p", "i", "n", "g", " ", "m", "a", "l", "f", "o",
    "r", "m", "e", "d", " ", "l", "i", "n", "e", " ", "l", "e", "n", "g",
    "t", "h", ":", " ", "e", "x", "p", "e", "c", "t", "e", "d", " ", "2",
    " ", "p", "a", "r", "t", "s", ",", " ", "g", "o", "t", " ", "'">>

\* "Error: File not found at '"
FileNotFoundText ==
  <<"E", "r", "r", "o", "r", ":", " ", "F", "i", "l", "e", " ", "n", "o",
    "t", " ", "f", "o", "u", "n", "d", " ", "a", "t", " ", "'">>

\* "Error: Missing file argument. Usage: python3 script.py <filename>"
MissingArgumentText ==
  <<"E", "r", "r", "o", "r", ":", " ", "M", "i", "s", "s", "i", "n", "g",
    " ", "f", "i", "l", "e", " ", "a", "r", "g", "u", "m", "e", "n", "t",
    ".", " ", "U", "s", "a", "g", "e", ":", " ", "p", "y", "t", "h", "o",
    "n", "3", " ", "s", "c", "r", "i", "p", "t", ".", "p", "y", " ", "<",
    "f", "i", "l", "e", "n", "a", "m", "e", ">">>

\* the first line of the traceback the interpreter prints for an exception
\* nothing catches: "Traceback (most recent call last): "
TracebackText ==
  <<"T", "r", "a", "c", "e", "b", "a", "c", "k", " ", "(", "m", "o", "s",
    "t", " ", "r", "e", "c", "e", "n", "t", " ", "c", "a", "l", "l", " ",
    "l", "a", "s", "t", ")", ":", " ">>

\* the names of the exceptions nothing catches
InvalidOperationName ==
  <<"d", "e", "c", "i", "m", "a", "l", ".", "I", "n", "v", "a", "l", "i",
    "d", "O", "p", "e", "r", "a", "t", "i", "o", "n">>

PermissionErrorName ==
  <<"P", "e", "r", "m", "i", "s", "s", "i", "o", "n", "E", "r", "r", "o",
    "r">>

IsADirectoryErrorName ==
  <<"I", "s", "A", "D", "i", "r", "e", "c", "t", "o", "r", "y", "E", "r",
    "r", "o", "r">>

\* str(n) for a natural number
RECURSIVE NatText(_)
NatText(n) ==
  IF n < 10 THEN <<DigitChars[n + 1]>>
  ELSE Append(NatText(n \div 10), DigitChars[(n % 10) + 1])

\* f"...'{value}'"
Quoted(prefix, value) == prefix \o value \o <<"'">>

\* parse_line without the check of the number of fields: a longer line is
\* read as its first two fields
ParseLine_NoLengthCheck(parts) ==
  IF Len(parts) >= 2
  THEN LET amount == ParseDecimal(parts[1])
       IN  IF amount.kind = "InvalidOperation"
           THEN [ok |-> FALSE, diag |-> Quoted(MalformedAmountText, parts[1])]
           ELSE [ok |-> TRUE, amount |-> amount, currency |-> parts[2]]
  ELSE [ok |-> FALSE, diag |-> Quoted(MalformedLengthText, NatText(Len(parts)))]

\* parse_line: the (amount, currency) pair, or None and one diagnostic
ParseLine(parts) ==
  IF Len(parts) = 2
  THEN LET amount == ParseDecimal(parts[1])
       IN  IF amount.kind = "InvalidOperation"
           THEN [ok |-> FALSE, diag |-> Quoted(MalformedAmountText, parts[1])]
           ELSE [ok |-> TRUE, amount |-> amount, currency |-> parts[2]]
  ELSE [ok |-> FALSE, diag |-> Quoted(MalformedLengthText, NatText(Len(parts)))]

\* parse_line(line.strip().split()) for each line a file can hold
LineResult == [line \in InputLines |-> ParseLine(Split(line))]

\* totals[currency]: a missing key is inserted with Decimal()
Lookup(t, currency) ==
  IF currency \in DOMAIN t
  THEN t
  ELSE [c \in DOMAIN t \cup {currency} |-> IF c = currency THEN DecZero ELSE t[c]]

\* totals[currency] += amount, when the addition does not raise
Accumulate(t, currency, amount) ==
  LET u == Lookup(t, currency)
  IN  [u EXCEPT ![currency] = DecAdd(u[currency], amount)]

\* the addition in totals[currency] += amount raises InvalidOperation
AddRaises(t, currency, amount) ==
  DecAdd(Lookup(t, currency)[currency], amount).kind = "InvalidOperation"

\* sorted(reverse=True): the keys in descending order
SortKeys_Descending(keys) ==
  [k \in 1..Cardinality(keys) |->
     CHOOSE c \in keys : Cardinality({d \in keys : StrLess(c, d)}) = k - 1]

\* sorted(): the keys in ascending order
SortKeys(keys) ==
  [k \in 1..Cardinality(keys) |->
     CHOOSE c \in keys : Cardinality({d \in keys : StrLess(d, c)}) = k - 1]

\* f"{currency}: {total:.2f}"
TotalLine(currency, total) == currency \o <<":", " ">> \o Format2f(total)

\* aggregate_totals: the lines printed
ReportLines(t) ==
  LET keys == SortKeys(DOMAIN t)
  IN  [k \in 1..Len(keys) |-> TotalLine(keys[k], t[keys[k]])]

Init ==
  /\ pc = "ArgCheck"
  /\ argv \in ArgLists
  /\ pathKind \in PathKinds
  /\ consumed = <<>>
  /\ totals = <<>>
  /\ fileOpen = FALSE
  /\ stdout = <<>>
  /\ stderr = <<>>
  /\ reported = FALSE
  /\ exitCode = NoExit

\* __main__ with len(sys.argv) < 2
MissingArg ==
  /\ pc = "ArgCheck"
  /\ Len(argv) < 1
  /\ stderr' = Append(stderr, MissingArgumentText)
  /\ exitCode' = 1
  /\ pc' = "Exit"
  /\ UNCHANGED <<argv, pathKind, consumed, totals, fileOpen, stdout, reported>>

\* __main__ calls read_lines(sys.argv[1])
CallReadLines ==
  /\ pc = "ArgCheck"
  /\ Len(argv) >= 1
  /\ pc' = "FileOpen"
  /\ UNCHANGED <<argv, pathKind, consumed, totals, fileOpen, stdout, stderr, reported, exitCode>>

\* open(filepath, "r") succeeds
OpenOk ==
  /\ pc = "FileOpen"
  /\ pathKind = "file"
  /\ fileOpen' = TRUE
  /\ pc' = "LineLoop"
  /\ UNCHANGED <<argv, pathKind, consumed, totals, stdout, stderr, reported, exitCode>>

\* the FileNotFoundError handler without its sys.exit(1): read_lines goes
\* on to aggregate_totals
OpenNotFound_FallsThrough ==
  /\ pc = "FileOpen"
  /\ pathKind = "missing"
  /\ stderr' = Append(stderr, Quoted(FileNotFoundText, argv[1]))
  /\ pc' = "Report"
  /\ UNCHANGED <<argv, pathKind, consumed, totals, fileOpen, stdout, reported, exitCode>>

\* open raises FileNotFoundError: the handler prints and calls sys.exit(1)
OpenNotFound ==
  /\ pc = "FileOpen"
  /\ pathKind = "missing"
  /\ stderr' = Append(stderr, Quoted(FileNotFoundText, argv[1]))
  /\ exitCode' = 1
  /\ pc' = "Exit"
  /\ UNCHANGED <<argv, pathKind, consumed, totals, fileOpen, stdout, reported>>

\* open raises another OSError, which no except clause of read_lines
\* catches: the interpreter prints the traceback and exits with status 1
OpenError ==
  /\ pc = "FileOpen"
  /\ pathKind \in {"denied", "directory"}
  /\ stderr' = Append(stderr, TracebackText \o (IF pathKind = "denied"
                                                  THEN PermissionErrorName
                                                  ELSE IsADirectoryErrorName))
  /\ exitCode' = 1
  /\ pc' = "Exit"
  /\ UNCHANGED <<argv, pathKind, consumed, totals, fileOpen, stdout, reported>>

\* parse_line printing its diagnostic without file=sys.stderr
LineReject_ToStdout ==
  /\ pc = "LineLoop"
  /\ Len(consumed) < MaxLines
  /\ \E line \in InputLines :
       LET result == LineResult[line]
       IN  /\ ~result.ok
           /\ consumed' = Append(consumed, line)
           /\ stdout' = Append(stdout, result.diag)
  /\ UNCHANGED <<pc, argv, pathKind, totals, fileOpen, stderr, reported, exitCode>>

\* one iteration of the loop on a line parse_line rejects
LineReject ==
  /\ pc = "LineLoop"
  /\ Len(consumed) < MaxLines
  /\ \E line \in InputLines :
       LET result == LineResult[line]
       IN  /\ ~result.ok
           /\ consumed' = Append(consumed, line)
           /\ stderr' = Append(stderr, result.diag)
  /\ UNCHANGED <<pc, argv, pathKind, totals, fileOpen, stdout, reported, exitCode>>

\* one iteration of the loop on a line parse_line accepts
LineAccept ==
  /\ pc = "LineLoop"
  /\ Len(consumed) < MaxLines
  /\ \E line \in InputLines :
       LET result == LineResult[line]
       IN  /\ result.ok
           /\ ~AddRaises(totals, result.currency, result.amount)
           /\ consumed' = Append(consumed, line)
           /\ totals' = Accumulate(totals, result.currency, result.amount)
  /\ UNCHANGED <<pc, argv, pathKind, fileOpen, stdout, stderr, reported, exitCode>>

\* one iteration of the loop in which totals[currency] += amount raises
\* decimal.InvalidOperation, after the lookup inserted a missing key
LineRaise ==
  /\ pc = "LineLoop"
  /\ Len(consumed) < MaxLines
  /\ \E line \in InputLines :
       LET result == LineResult[line]
       IN  /\ result.ok
           /\ AddRaises(totals, result.currency, result.amount)
           /\ consumed' = Append(consumed, line)
           /\ totals' = Lookup(totals, result.currency)
  /\ pc' = "Raised"
  /\ UNCHANGED <<argv, pathKind, fileOpen, stdout, stderr, reported, exitCode>>

\* the exception leaving a loop over a file opened without a with block:
\* nothing closes f
Unwind_KeepsOpen ==
  /\ pc = "Raised"
  /\ stderr' = Append(stderr, TracebackText \o InvalidOperationName)
  /\ exitCode' = 1
  /\ pc' = "Exit"
  /\ UNCHANGED <<argv, pathKind, consumed, totals, fileOpen, stdout, reported>>

\* the exception leaves the with block, which closes f; neither except
\* clause of read_lines matches it, so the interpreter prints the traceback
\* and exits with status 1
Unwind ==
  /\ pc = "Raised"
  /\ fileOpen' = FALSE
  /\ stderr' = Append(stderr, TracebackText \o InvalidOperationName)
  /\ exitCode' = 1
  /\ pc' = "Exit"
  /\ UNCHANGED <<argv, pathKind, consumed, totals, stdout, reported>>

\* the iteration is exhausted: the with block ends and closes f
EndOfFile ==
  /\ pc = "LineLoop"
  /\ fileOpen' = FALSE
  /\ pc' = "Report"
  /\ UNCHANGED <<argv, pathKind, consumed, totals, stdout, stderr, reported, exitCode>>

\* aggregate_totals(totals)
Report ==
  /\ pc = "Report"
  /\ stdout' = stdout \o ReportLines(totals)
  /\ reported' = TRUE
  /\ pc' = "Returned"
  /\ UNCHANGED <<argv, pathKind, consumed, totals, fileOpen, stderr, exitCode>>

\* read_lines returns and the script ends
ExitOk ==
  /\ pc = "Returned"
  /\ exitCode' = 0
  /\ pc' = "Exit"
  /\ UNCHANGED <<argv, pathKind, consumed, totals, fileOpen, stdout, stderr, reported>>

Next ==
  \/ MissingArg
  \/ CallReadLines
  \/ OpenOk
  \/ OpenNotFound
  \/ OpenError
  \/ LineReject
  \/ LineAccept
  \/ LineRaise
  \/ Unwind
  \/ EndOfFile
  \/ Report
  \/ ExitOk

Spec == Init /\ [][Next]_vars

---------------------------------------------------------------------------
(* What the properties speak of                                            *)

\* a valid record: a line of two fields whose first field is a decimal
IsRecord(line) ==
  LET fields == Split(line)
  IN  Len(fields) = 2 /\ ParseDecimal(fields[1]).kind # "InvalidOperation"

\* per line: whether it is a valid record, and its amount and currency
Record ==
  [line \in InputLines |->
     IF IsRecord(line)
     THEN [valid |-> TRUE, amount |-> ParseDecimal(Split(line)[1]),
           currency |-> Split(line)[2]]
     ELSE [valid |-> FALSE, amount |-> DecZero, currency |-> <<>>]]

\* the positions of the valid records of currency c among lines
RecordsOf(c, lines) ==
  {i \in 1..Len(lines) : Record[lines[i]].valid /\ Record[lines[i]].currency = c}

\* the currencies of the valid records among lines
CurrenciesIn(lines) ==
  {Record[lines[i]].currency : i \in {j \in 1..Len(lines) : Record[lines[j]].valid}}

\* the number of malformed lines among lines
MalformedCount(lines) == Cardinality({i \in 1..Len(lines) : ~Record[lines[i]].valid})

\* every valid record of currency c among lines is a finite number
AllFinite(c, lines) == \A i \in RecordsOf(c, lines) : IsFinite(Record[lines[i]].amount)

Negate(d) == [d EXCEPT !.sign = 1 - d.sign]

\* a and b are the same number
NumEq(a, b) == IsZeroDigits(ExactAdd(a, Negate(b)).digits)

\* |a - b| <= bound, for finite a, b and a bound >= 0
Within(a, b, bound) ==
  LET diff == ExactAdd(a, Negate(b))
      over == ExactAdd([diff EXCEPT !.sign = 0], Negate(bound))
  IN  over.sign = 1 \/ IsZeroDigits(over.digits)

\* the mathematical sum of the valid records of currency c among lines
RECURSIVE ExactSum(_, _)
ExactSum(c, lines) ==
  IF lines = <<>>
  THEN DecZero
  ELSE LET n    == Len(lines)
           rest == ExactSum(c, SubSeq(lines, 1, n - 1))
       IN  IF n \in RecordsOf(c, lines)
           THEN ExactAdd(rest, Record[lines[n]].amount)
           ELSE rest

IsPrefix(p, t) == Len(p) <= Len(t) /\ SubSeq(t, 1, Len(p)) = p

\* a diagnostic of parse_line
IsLineDiagnostic(t) == IsPrefix(MalformedAmountText, t) \/ IsPrefix(MalformedLengthText, t)

LineDiagnostics(out) == {i \in 1..Len(out) : IsLineDiagnostic(out[i])}

\* the file was opened
Opened == Len(argv) >= 1 /\ pathKind = "file"

---------------------------------------------------------------------------
(* The properties                                                          *)

\* C1: after read_lines has processed any sequence of lines, totals[c] is
\* the exact mathematical sum of the amounts of the valid records of
\* currency c, with no precision loss; stated for the currencies whose
\* records are all finite numerals.
C1_ExactSums ==
  \A c \in CurrenciesIn(consumed) :
     AllFinite(c, consumed) =>
       /\ c \in DOMAIN totals
       /\ IsFinite(totals[c])
       /\ NumEq(totals[c], ExactSum(c, consumed))

\* C2: once the file is open no line content aborts the line loop: no
\* exception leaves the loop, and a run that opened its file ends having
\* reached the Report stage.
C2_NoLineAbortsLoop ==
  /\ pc # "Raised"
  /\ pc = "Exit" /\ Opened => reported

\* C3: processing a malformed line leaves totals unchanged and writes exactly
\* one diagnostic to the error stream and nothing to standard output, the
\* loop going on; so while the run completes, the error stream holds one
\* diagnostic per malformed line, totals holds the currencies of the valid
\* records only, and the run that reaches the report exits 0.
C3_MalformedLineSkipped ==
  /\ [][\A line \in InputLines :
          consumed' = Append(consumed, line) /\ ~Record[line].valid =>
            /\ totals' = totals
            /\ Len(stderr') = Len(stderr) + 1
            /\ IsLineDiagnostic(stderr'[Len(stderr')])
            /\ stdout' = stdout
            /\ pc' = "LineLoop"]_vars
  /\ [](pc \in {"LineLoop", "Report", "Returned"} \/ reported =>
          /\ Len(stderr) = MalformedCount(consumed)
          /\ DOMAIN totals = CurrenciesIn(consumed))
  /\ [](pc = "Exit" /\ reported => exitCode = 0)

\* a run over two malformed lines (a wrong field count, an unparsable
\* amount) and a valid record has completed with exit code 0
C3_Witness ==
  /\ pc = "Exit"
  /\ exitCode = 0
  /\ MalformedCount(consumed) = 2
  /\ \E i \in 1..Len(stderr) : IsPrefix(MalformedAmountText, stderr[i])
  /\ \E i \in 1..Len(stderr) : IsPrefix(MalformedLengthText, stderr[i])
  /\ DOMAIN totals # {}

\* C4: a run whose path cannot be opened, for whatever reason, writes the
\* "file not found" diagnostic with the path to the error stream, exits
\* with code 1 and writes nothing to standard output.
C4_UnopenablePathReported ==
  pc = "Exit" /\ Len(argv) >= 1 /\ pathKind # "file" =>
    /\ stderr = <<Quoted(FileNotFoundText, argv[1])>>
    /\ exitCode = 1
    /\ stdout = <<>>

\* the currency a line of the report is for: the text before its colon
KeyOf(t) == SubSeq(t, 1, IndexOf(t, ":") - 1)

\* the amount of a line of the report: the text after ": "
AmountOf(t) == SubSeq(t, IndexOf(t, ":") + 2, Len(t))

\* C5: the report has exactly one line for each distinct currency of a valid
\* record (codes differing in case are distinct, a zero sum keeps its line)
\* and no other line, in strict ascending code point order of the currency.
C5_OneLinePerCurrencySorted ==
  reported =>
    /\ Len(stdout) = Cardinality(CurrenciesIn(consumed))
    /\ \A c \in CurrenciesIn(consumed) : \E i \in 1..Len(stdout) : KeyOf(stdout[i]) = c
    /\ \A i \in 1..Len(stdout) : KeyOf(stdout[i]) \in CurrenciesIn(consumed)
    /\ \A i \in 1..Len(stdout) : \A j \in 1..Len(stdout) :
         i < j => StrLess(KeyOf(stdout[i]), KeyOf(stdout[j]))

\* the report of a file with records in EUR, USD and usd has been written
C5_Witness ==
  /\ reported
  /\ Len(stdout) = 3
  /\ KeyOf(stdout[1]) = <<"E", "U", "R">>
  /\ KeyOf(stdout[2]) = <<"U", "S", "D">>
  /\ KeyOf(stdout[3]) = <<"u", "s", "d">>

\* -?\d+\.\d\d
HasTwoDecimals(t) ==
  LET body == IF t # <<>> /\ t[1] = "-" THEN Tail(t) ELSE t
      n    == Len(body)
  IN  /\ n >= 4
      /\ body[n - 2] = "."
      /\ AllDigits(SubSeq(body, 1, n - 3))
      /\ AllDigits(SubSeq(body, n - 1, n))

\* half a cent
HalfCent == Finite(0, <<5>>, -3)

\* C6: every line the Reporter writes is "<currency>: <amount>" where
\* <amount> has exactly two digits after the decimal point and is the
\* accumulated sum of that currency rounded to two decimal places.
C6_TwoDecimalAmounts ==
  \A i \in 1..Len(stdout) :
     /\ KeyOf(stdout[i]) \in DOMAIN totals
     /\ IsPrefix(KeyOf(stdout[i]) \o <<":", " ">>, stdout[i])
     /\ HasTwoDecimals(AmountOf(stdout[i]))
     /\ IsFinite(totals[KeyOf(stdout[i])])
     /\ Within(ParseDecimal(AmountOf(stdout[i])), totals[KeyOf(stdout[i])], HalfCent)

\* the loop of read_lines over lines whose additions do not raise
RECURSIVE RunTotals(_)
RunTotals(lines) ==
  IF lines = <<>>
  THEN <<>>
  ELSE LET n      == Len(lines)
           before == RunTotals(SubSeq(lines, 1, n - 1))
           result == LineResult[lines[n]]
       IN  IF result.ok
           THEN Accumulate(before, result.currency, result.amount)
           ELSE before

\* the orderings of a sequence
Orderings(lines) ==
  {[i \in 1..Len(lines) |-> lines[f[i]]] :
     f \in {g \in [1..Len(lines) -> 1..Len(lines)] :
              \A i, j \in 1..Len(lines) : g[i] = g[j] => i = j}}

\* C7: for every two orderings of the same lines the final sum and the
\* reported line of each currency are the same; stated for files whose
\* valid records are all finite numerals.
C7_OrderInvariant ==
  pc = "Report" /\ (\A c \in CurrenciesIn(consumed) : AllFinite(c, consumed)) =>
    \A other \in Orderings(consumed) :
       \A c \in DOMAIN totals :
          /\ NumEq(RunTotals(other)[c], totals[c])
          /\ TotalLine(c, RunTotals(other)[c]) = TotalLine(c, totals[c])

\* C8: at exit the code is 0 if and only if the run reached the Report
\* stage, and 1 otherwise; a run with no file argument or with a path that
\* cannot be opened exits 1 without the Reporter; a run over a file with no
\* valid record reaches the report, prints no line and exits 0.
C8_ExitCodes ==
  /\ pc # "Exit" => exitCode = NoExit
  /\ pc = "Exit" => (exitCode = 0 <=> reported) /\ (~reported => exitCode = 1)
  /\ pc = "Exit" /\ ~Opened => exitCode = 1 /\ ~reported /\ stdout = <<>>
  /\ ~Opened => ~reported /\ pc \notin {"Report", "Returned"}
  /\ pc = "Exit" /\ reported /\ CurrenciesIn(consumed) = {} =>
       stdout = <<>> /\ exitCode = 0

\* a run over an empty file has exited 0 with nothing printed, and so has
\* not a run with nothing to open
C8_Witness ==
  /\ pc = "Exit"
  /\ Opened
  /\ consumed = <<>>
  /\ reported
  /\ exitCode = 0
  /\ stdout = <<>>

\* C9: standard output holds only total lines of the Reporter; every
\* diagnostic (malformed length, malformed amount, missing argument, file
\* not found) is on the error stream.
C9_DiagnosticsOnStderr ==
  /\ \A i \in 1..Len(stdout) :
        \E c \in DOMAIN totals : stdout[i] = TotalLine(c, totals[c])
  /\ stdout # <<>> => reported
  /\ Cardinality(LineDiagnostics(stderr)) = MalformedCount(consumed)
  /\ pc = "Exit" /\ Len(argv) < 1 => stderr = <<MissingArgumentText>>
  /\ pc = "Exit" /\ Len(argv) >= 1 /\ pathKind = "missing" =>
       stderr = <<Quoted(FileNotFoundText, argv[1])>>

\* a report has been printed after a diagnostic of each kind of parse_line
C9_Witness ==
  /\ reported
  /\ stdout # <<>>
  /\ \E i \in 1..Len(stderr) : IsPrefix(MalformedAmountText, stderr[i])
  /\ \E i \in 1..Len(stderr) : IsPrefix(MalformedLengthText, stderr[i])

\* C10: the run is open, iterate, close, report: the handle is held only in
\* the line loop (or while an exception leaves it), it is released before
\* the Reporter writes and before the process exits on every path, the
\* report is written in one go after the last line was processed, and no
\* diagnostic follows an output line.
C10_OpenIterateCloseReport ==
  /\ [](fileOpen => pc \in {"LineLoop", "Raised"})
  /\ [](pc = "Exit" => ~fileOpen)
  /\ [](stdout # <<>> \/ reported => ~fileOpen)
  /\ [][fileOpen' /\ ~fileOpen => pc = "FileOpen"]_vars
  /\ [][stdout' # stdout \/ (reported' /\ ~reported) =>
          pc = "Report" /\ ~fileOpen /\ stdout = <<>>]_vars
  /\ [][stdout # <<>> \/ reported =>
          stderr' = stderr /\ consumed' = consumed /\ totals' = totals]_vars

\* a run whose line loop ended by an exception after two lines has exited
\* with the handle released
C10_Witness ==
  /\ pc = "Exit"
  /\ exitCode = 1
  /\ Len(consumed) >= 2
  /\ ~reported
  /\ ~fileOpen

====
